---- MODULE Spec2Model ----
(***************************************************************************)
(* Price-history synchronisation of AICapstoneDesign.                      *)
(*                                                                         *)
(*   src/apps/ls_t1305.py                     LsOpenApiT1305.fetch_t1305,  *)
(*                                            write_csv                    *)
(*   src/modifications/append_stock_prices.py unique_preserve_order,       *)
(*                                            download_year_price, main    *)
(*   src/apps/batch_prices.py                 main (the loop, SpecBatch)   *)
(*                                                                         *)
(* One sequential process runs main() over a batch of tickers; run after   *)
(* run shares the snapshot files on disk.  A date is the fixed-width       *)
(* string YYYYMMDD of the source; it is modelled by its day ordinal, whose *)
(* numeric order is the lexicographic order of the strings, and the empty  *)
(* string (smaller than every date, falsy) by 0.                           *)
(*                                                                         *)
(*   src/apps/signals.py                      read_prices_csv, pct_rank,   *)
(*                                            compute_signals_for_ticker,  *)
(*                                            write_jsonl, write_topn_json,*)
(*                                            main                         *)
(*                                                                         *)
(* The signal engine is a second program over a directory of price files;  *)
(* it has a specification of its own, SpecSignals.  Its floats are kept in *)
(* fixed point, in millionths.                                             *)
(***************************************************************************)
EXTENDS Integers, Sequences, FiniteSets, TLC

(* ------------------------------ bounds -------------------------------- *)
\* longest raw ticker list given to a run
MaxBatch == 4
\* longest raw ticker list explored against an upstream of arbitrary pages
MaxAnyBatch == 1
\* largest --cnt explored against the upstream
MaxCnt == 2
\* largest --cnt explored in mock mode
MaxMockCnt == 5
\* newest period the upstream series reaches
MaxDate == 4
\* newest date in a page of an upstream of arbitrary pages
MaxAnyDate == 3
\* most rows in one upstream page
MaxPage == 2
\* most page requests the upstream lets one fetch make
MaxReq == 2
\* runs of main() over the same store
MaxRuns == 2
\* most periods the upstream series gains in one go while main() is not run
MaxGap == 12
\* most price files in the directory the signal engine reads
MaxFiles == 3
\* largest --top-n explored
MaxTopN == 2
\* the --lookback explored beside the default
SmallLookback == 3

(* ------------------------- program constants -------------------------- *)
\* update_buffer_cnt
UpdateBufferCnt == 10
\* "if count == 3: break"
MaxPerRun == 3
\* datetime(2025, 10, 15), as the day of October 2025
MockToday == 15
\* weekday() of 2025-10-15 (a Wednesday; Monday is 0)
MockTodayWeekday == 2
\* the mock generator's starting price
MockStartPrice == 90000
\* --lookback, default
DefaultLookback == 60
\* closes[20], "len(closes) > 20"
Ret20Offset == 20
\* window_closes[:20], window_closes[:60]
MaShort == 20
MaLong == 60
\* w_prox, w_ret, w_vol, w_ma = 0.5, 0.3, 0.15, 0.05, in hundredths
w_prox == 50
w_ret == 30
w_vol == 15
w_ma == 5

\* the empty string / a missing CSV cell
Empty == 0
\* dict.get on a key that is not there
None == -1
RspOk == "00000"

Min(a, b) == IF a < b THEN a ELSE b
Max(a, b) == IF a > b THEN a ELSE b

\* s[:n]
Take(s, n) == SubSeq(s, 1, Min(n, Len(s)))

\* r.get(k): None when the row has no such key
Get(r, k) == IF k \in DOMAIN r THEN r[k] ELSE None

\* the test "is not None" for the truth test: an empty string passes
NotNone(v) == v # None

\* Python truthiness of a cell or of dict.get's result
Truthy(v) == v # None /\ v # Empty

SeqsUpTo(S, n) == UNION {[1..k -> S] : k \in 0..n}

Dates(rows) == [k \in 1..Len(rows) |-> Get(rows[k], "date")]

\* strictly descending dates: newest first and no date twice
StrictlyDescending(rows) ==
    \A k \in 1..(Len(rows) - 1) : Get(rows[k], "date") > Get(rows[k + 1], "date")

NoDuplicateDates(rows) ==
    \A j, k \in 1..Len(rows) : j # k => Get(rows[j], "date") # Get(rows[k], "date")

NewestFirst(rows) ==
    \A k \in 1..(Len(rows) - 1) : Get(rows[k], "date") >= Get(rows[k + 1], "date")

(* --------------------------- ticker batches --------------------------- *)
RECURSIVE UniqueFrom(_, _, _)
UniqueFrom(items, k, out) ==
    IF k > Len(items) THEN out
    ELSE IF \E j \in 1..Len(out) : out[j] = items[k]
         THEN UniqueFrom(items, k + 1, out)
         ELSE UniqueFrom(items, k + 1, Append(out, items[k]))

unique_preserve_order(items) == UniqueFrom(items, 1, <<>>)

TickerIds == 1..MaxBatch

\* Raw ticker lists up to the names of the tickers: the first ticker is 1 and
\* each later entry repeats an earlier one or is the next unused ticker.
RawBatches ==
    {s \in SeqsUpTo(TickerIds, MaxBatch) :
        \A k \in 1..Len(s) :
            \/ \E j \in 1..(k - 1) : s[j] = s[k]
            \/ s[k] = Cardinality({s[j] : j \in 1..(k - 1)}) + 1}

(* ----------------------------- the upstream --------------------------- *)
\* The bar of period d of the upstream series.  Beside the core fields a row
\* carries upstream-defined ones, here "sign"; the upstream sends it up to
\* period MaxDate - 1 and no longer from period MaxDate on.
Bar(d) ==
    IF d < MaxDate
    THEN [date |-> d, close |-> 100 + d, sign |-> 2]
    ELSE [date |-> d, close |-> 100 + d]

\* rows an upstream of arbitrary pages may send
AnyRows == {Bar(d) : d \in 1..MaxAnyDate}

NoResp == [kind |-> "none", rsp_cd |-> "", rows |-> <<>>, tr_cont |-> "none", date |-> None]

\* A well-behaved upstream: the series latest, latest-1, .., 1, newest first,
\* in pages of at most MaxPage rows that start right below the anchor date.
SeriesPage(latest, anchor, reqcnt) ==
    LET top   == IF anchor = Empty THEN latest ELSE anchor - 1
        k     == Min(Min(reqcnt, MaxPage), Max(top, 0))
        page  == [j \in 1..k |-> Bar(top + 1 - j)]
    IN  [kind |-> "json", rsp_cd |-> RspOk, rows |-> page,
         tr_cont |-> IF top > k THEN "Y" ELSE "N",
         date |-> IF k > 0 THEN top + 1 - k ELSE Empty]

\* An upstream of arbitrary pages: any rows in any order, any continuation
\* header, any cursor, the status code right or missing ("").
AnyPages ==
    [kind : {"json"}, rsp_cd : {RspOk, ""}, rows : SeqsUpTo(AnyRows, MaxPage),
     tr_cont : {"y", "N", "none"}, date : {None, Empty, 1}]

\* What every upstream can do as well: fail the transport (no body is read),
\* or answer with an error status code, here on a body that still carries a
\* page, the continuation header and a next date.
Faults ==
    { [NoResp EXCEPT !.kind = "transport"],
      [kind |-> "json", rsp_cd |-> "IGW00121", rows |-> <<Bar(1)>>,
       tr_cont |-> "Y", date |-> 1] }

(* -------------------------- the mock generator ------------------------ *)
\* d = today - i days, moved back to the Friday when it falls on a weekend
MockDate(i) ==
    LET wd == (MockTodayWeekday - i) % 7
    IN  MockToday - i - (IF wd = 6 THEN 2 ELSE IF wd = 5 THEN 1 ELSE 0)

RECURSIVE MockClose(_)
MockClose(i) ==
    LET open_p == IF i = 0 THEN MockStartPrice ELSE MockClose(i - 1)
    IN  open_p + (IF i % 3 = 0 THEN 500 ELSE -300)

MockRows(n) == [k \in 1..n |-> [date |-> MockDate(k - 1), close |-> MockClose(k - 1)]]

(* ------------------------------ write_csv ----------------------------- *)
\* the columns of the file are the keys of the first row
CsvCols(rows) == DOMAIN rows[1]

\* {k: r.get(k, "") for k in cols}, as csv.DictReader reads it back
CsvRow(cols, r) == [k \in cols |-> IF k \in DOMAIN r THEN r[k] ELSE Empty]

Absent == [exists |-> FALSE, rows |-> <<>>]

\* the file write_csv(rows, path) leaves when it completes
CsvFile(rows) ==
    [exists |-> TRUE, rows |-> [k \in 1..Len(rows) |-> CsvRow(CsvCols(rows), rows[k])]]

(* ----------------------------- append-new ----------------------------- *)
\* the filter with ">=" for ">": the row of the newest stored date passes again
RECURSIVE NotOlderThan(_, _)
NotOlderThan(rows, last) ==
    IF rows = <<>> THEN <<>>
    ELSE IF Get(rows[1], "date") >= last
         THEN <<rows[1]>> \o NotOlderThan(Tail(rows), last)
         ELSE NotOlderThan(Tail(rows), last)

RECURSIVE NewerThan(_, _)
\* [r for r in new_rows_buffer if r.get("date") > last_date]
NewerThan(rows, last) ==
    IF rows = <<>> THEN <<>>
    ELSE IF Get(rows[1], "date") > last
         THEN <<rows[1]>> \o NewerThan(Tail(rows), last)
         ELSE NewerThan(Tail(rows), last)

\* the date of the file's last row, as if the file were kept oldest first
OldestDate(rows) == IF rows = <<>> THEN None ELSE Get(rows[Len(rows)], "date")

\* existing_rows[0].get("date") of a non-empty file, else None
LastDate(rows) == IF rows = <<>> THEN None ELSE Get(rows[1], "date")

\* the new rows put behind the stored ones
AppendedRows(rows_to_add, existing_rows) == existing_rows \o rows_to_add

\* updated_rows = rows_to_add + existing_rows
UpdatedRows(rows_to_add, existing_rows) == rows_to_add \o existing_rows

\* steps 1 to 3 of the update branch on a non-empty file: the rows it hands
\* to write_csv, or the file's rows when nothing is newer
Merged(incoming, existing) ==
    LET rows_to_add == NewerThan(incoming, LastDate(existing))
    IN  IF rows_to_add # <<>> THEN UpdatedRows(rows_to_add, existing) ELSE existing

VARIABLES
    tickers,        \* the batch after unique_preserve_order
    cnt,            \* --cnt
    mock,           \* LS_MOCK
    honest,         \* the upstream is the well-behaved series
    skip_existing,  \* --skip-existing
    latest,         \* newest period of the upstream series
    store,          \* ticker -> its snapshot file
    runs,           \* runs of main() started
    pc,             \* where main() is
    i,              \* 1-based position in tickers of the current ticker
    count, ok, fail,
    exitCode,       \* main()'s return value, None while it runs
    mode,           \* "new" | "redo" | "update": the branch taken for tickers[i]
                    \* ("batch": the one branch of batch_prices.main)
    prior,          \* the snapshot file as main() found it for tickers[i]
    last_date,
    fcnt,           \* cnt of the fetch_t1305 call in progress
    total_rows, next_date, tr_cont,
    nreq,           \* page requests of the fetch in progress
    emptyPage,      \* a response of this fetch set the continuation header on
                    \* a page without rows
    resp,           \* the last response (data and headers)
    ret,            \* "none" | "rows" | "raised": how the fetch ended
    fetched,        \* out["t1305OutBlock1"] of the fetch that returned
    wbuf,           \* rows handed to write_csv
    event,          \* how the current ticker ended
    processed,      \* ticker -> times the loop body ran for it in this run
    slept,          \* the rate-limit sleep ran after the current ticker
    synced,         \* tickers this run counted as a success
    prevSynced,     \* tickers the run before this one counted as a success
    grew,           \* the upstream series grew since the last run ended
    \* signals.main()
    prices_dir_ok,  \* os.path.isdir(prices_dir)
    files,          \* the rows of the .csv files, in the order of files.sort()
    lookback,       \* --lookback
    top_n,          \* --top-n
    spc,            \* where signals.main() is
    fi,             \* 1-based position in files of the file computed next
    results,
    out_jsonl,      \* the items write_jsonl wrote
    out_top,        \* the payload write_topn_json wrote
    sigExit         \* what signals.main() returned, None before

cfgVars   == <<tickers, cnt, mock, honest, skip_existing>>
fetchVars == <<fcnt, total_rows, next_date, tr_cont, nreq, emptyPage, resp, ret,
               fetched>>
tallyVars == <<count, ok, fail, synced>>
histVars  == <<prevSynced, grew>>
sigVars   == <<prices_dir_ok, files, lookback, top_n, spc, fi, results,
               out_jsonl, out_top, sigExit>>
syncVars  == <<tickers, cnt, mock, honest, skip_existing, latest, store, runs, pc, i,
               count, ok, fail, exitCode, mode, prior, last_date, fcnt, total_rows,
               next_date, tr_cont, nreq, emptyPage, resp, ret, fetched, wbuf, event,
               processed, slept, synced, prevSynced, grew>>
vars == <<tickers, cnt, mock, honest, skip_existing, latest, store, runs, pc, i,
          count, ok, fail, exitCode, mode, prior, last_date, fcnt, total_rows,
          next_date, tr_cont, nreq, emptyPage, resp, ret, fetched, wbuf, event,
          processed, slept, synced, prevSynced, grew,
          prices_dir_ok, files, lookback, top_n, spc, fi, results,
          out_jsonl, out_top, sigExit>>

Cur == tickers[i]

\* the signal engine is not run
SigIdle ==
    /\ prices_dir_ok = FALSE
    /\ files = <<>>
    /\ lookback = DefaultLookback
    /\ top_n = 0
    /\ spc = "idle"
    /\ fi = 0
    /\ results = <<>>
    /\ out_jsonl = <<>>
    /\ out_top = <<>>
    /\ sigExit = None

Init ==
    /\ \E raw \in RawBatches : tickers = unique_preserve_order(raw)
    /\ mock \in BOOLEAN
    /\ honest \in BOOLEAN
    /\ mock => honest
    /\ ~honest => Len(tickers) <= MaxAnyBatch
    /\ cnt \in 1..(IF mock THEN MaxMockCnt ELSE MaxCnt)
    /\ latest \in (IF honest /\ ~mock THEN 1..MaxDate ELSE {MaxDate})
    /\ skip_existing \in BOOLEAN
    /\ store = [t \in TickerIds |-> Absent]
    /\ runs = 0
    /\ pc = "start"
    /\ i = 0
    /\ count = 0 /\ ok = 0 /\ fail = 0
    /\ exitCode = None
    /\ mode = "none"
    /\ prior = Absent
    /\ last_date = None
    /\ fcnt = 0
    /\ total_rows = <<>> /\ next_date = Empty /\ tr_cont = "N"
    /\ nreq = 0
    /\ emptyPage = FALSE
    /\ resp = NoResp
    /\ ret = "none"
    /\ fetched = <<>>
    /\ wbuf = <<>>
    /\ event = "none"
    /\ processed = [t \in TickerIds |-> 0]
    /\ slept = FALSE
    /\ synced = {}
    /\ prevSynced = {}
    /\ grew = FALSE
    /\ SigIdle

(* ------------------------------- main() ------------------------------- *)
\* main() is entered: a first run, or a further run over the same store.
\* An empty ticker list ends it with 2 before the loop.
StartRun ==
    /\ pc \in {"start", "done"}
    /\ runs < MaxRuns
    /\ runs' = runs + 1
    /\ count' = 0 /\ ok' = 0 /\ fail' = 0
    /\ synced' = {}
    /\ prevSynced' = synced
    /\ grew' = grew
    /\ i' = 1
    /\ processed' = [t \in TickerIds |-> 0]
    /\ event' = "none"
    /\ slept' = FALSE
    /\ IF tickers = <<>>
       THEN pc' = "done" /\ exitCode' = 2
       ELSE pc' = "loop" /\ exitCode' = None
    /\ UNCHANGED <<sigVars, cfgVars, latest, store, mode, prior, last_date, fetchVars, wbuf>>

\* Between two runs the upstream series gains a period.
NewBar ==
    /\ pc = "done"
    /\ honest /\ ~mock
    /\ latest < MaxDate
    /\ latest' = latest + 1
    /\ grew' = TRUE
    /\ prevSynced' = prevSynced
    /\ UNCHANGED <<sigVars, cfgVars, store, runs, pc, i, tallyVars, exitCode,
                   mode, prior, last_date, fetchVars, wbuf, event, processed, slept>>

\* the run ends with 0 whatever the tally
ExitStatusAlwaysZero(f) == 0

\* return 0 if fail == 0 else 1
ExitStatus(f) == IF f = 0 THEN 0 ELSE 1

\* The for loop ends: the list is exhausted, or count reached 3 ("break").
LoopExit ==
    /\ pc = "loop"
    /\ i > Len(tickers) \/ count = MaxPerRun
    /\ pc' = "done"
    /\ exitCode' = ExitStatus(fail)
    /\ grew' = FALSE
    /\ prevSynced' = prevSynced
    /\ UNCHANGED <<sigVars, cfgVars, latest, store, runs, i, tallyVars, mode,
                   prior, last_date, fetchVars, wbuf, event, processed, slept>>

InLoop == pc = "loop" /\ i <= Len(tickers) /\ count < MaxPerRun

\* the catch-up fetch asking for --cnt rows as the downloads do
FetchCountAlwaysCnt(m) == cnt

\* cnt of the fetch_t1305 call of each branch: update_buffer_cnt for the
\* catch-up, args.cnt for download_year_price
FetchCount(m) == IF m = "update" THEN UpdateBufferCnt ELSE cnt

\* the locals of fetch_t1305 as the call starts
StartFetch(n) ==
    /\ fcnt' = n
    /\ total_rows' = <<>>
    /\ next_date' = Empty
    /\ tr_cont' = "N"
    /\ nreq' = 0
    /\ emptyPage' = FALSE
    /\ resp' = NoResp
    /\ ret' = "none"
    /\ fetched' = <<>>

EnterBody ==
    /\ count' = count + 1
    /\ processed' = [processed EXCEPT ![Cur] = @ + 1]
    /\ prior' = store[Cur]
    /\ slept' = FALSE

\* The file exists and --skip-existing is set: counted as a success, "continue".
SkipExisting ==
    /\ InLoop
    /\ store[Cur].exists /\ skip_existing
    /\ count' = count + 1
    /\ processed' = [processed EXCEPT ![Cur] = @ + 1]
    /\ ok' = ok + 1 /\ fail' = fail /\ synced' = synced \cup {Cur}
    /\ event' = "skipped"
    /\ i' = i + 1
    /\ UNCHANGED <<sigVars, cfgVars, histVars, latest, store, runs, pc, exitCode, mode,
                   prior, last_date, fetchVars, wbuf, slept>>

\* The file exists: it is read, and its first row's date decides between the
\* catch-up fetch and a fresh download.
BeginExisting ==
    /\ InLoop
    /\ store[Cur].exists /\ ~skip_existing
    /\ EnterBody
    /\ LET ld == LastDate(store[Cur].rows)
       IN  /\ last_date' = ld
           /\ IF Truthy(ld)
              THEN mode' = "update" /\ StartFetch(FetchCount("update"))
              ELSE mode' = "redo" /\ StartFetch(FetchCount("redo"))
    /\ event' = "none"
    /\ pc' = "fetch"
    /\ UNCHANGED <<sigVars, cfgVars, histVars, latest, store, runs, i, ok, fail,
                   synced, exitCode, wbuf>>

\* Opening or reading the existing file raises: "FAIL (Update)".
ReadFail ==
    /\ InLoop
    /\ store[Cur].exists /\ ~skip_existing
    /\ EnterBody
    /\ fail' = fail + 1 /\ ok' = ok /\ synced' = synced
    /\ event' = "io_error"
    /\ mode' = "update"
    /\ pc' = "sleep"
    /\ UNCHANGED <<sigVars, cfgVars, histVars, latest, store, runs, i, exitCode,
                   last_date, fetchVars, wbuf>>

\* No file yet: download_year_price.
BeginNew ==
    /\ InLoop
    /\ ~store[Cur].exists
    /\ EnterBody
    /\ mode' = "new"
    /\ last_date' = None
    /\ StartFetch(FetchCount("new"))
    /\ event' = "none"
    /\ pc' = "fetch"
    /\ UNCHANGED <<sigVars, cfgVars, histVars, latest, store, runs, i, ok, fail,
                   synced, exitCode, wbuf>>

(* ---------------------------- fetch_t1305 ----------------------------- *)
\* "cnt": max(1, min(cnt - len(total_rows), cnt))
PageSize(n, have) == Max(1, Min(n - have, n))

\* only the transport check: the status code of the body is not looked at
RejectedByTransportOnly(r) == r.kind = "transport"

\* raise_for_status() raises, or rsp_cd is set and is not "00000"
Rejected(r) == r.kind = "transport" \/ (r.rsp_cd # "" /\ r.rsp_cd # RspOk)

\* (h_tr_cont or "N").upper().startswith("Y")
IsCont(h) == (IF h = "y" THEN "Y" ELSE IF h = "none" THEN "N" ELSE h) = "Y"

\* out.get("date", next_date)
NextDate(r, nd) == IF r.date = None THEN nd ELSE r.date

\* the loop that never takes the "no next date" exit
CursorAlwaysThere(nd) == FALSE

\* "if not next_date: ... break"
NoCursor(nd) == ~Truthy(nd)

\* the accumulator returned whole
FetchResultAll(acc, n) == acc

\* total_rows[:cnt]
FetchResult(acc, n) == Take(acc, n)

\* the loop without the exit on a full accumulator
EnoughNever(acc, n) == FALSE

\* "if len(total_rows) >= cnt: break"
Enough(acc, n) == Len(acc) >= n

\* the while loop goes round again after response r
Continues(r) ==
    /\ ~Rejected(r)
    /\ ~Enough(total_rows \o r.rows, fcnt)
    /\ IsCont(r.tr_cont)
    /\ ~NoCursor(NextDate(r, next_date))

Responses ==
    IF honest
    THEN {SeriesPage(latest, next_date, PageSize(fcnt, Len(total_rows)))} \cup Faults
    ELSE AnyPages \cup Faults

\* the except clauses of main() and download_year_price: the ticker failed
Failed(ev) ==
    /\ fail' = fail + 1 /\ ok' = ok /\ synced' = synced
    /\ event' = ev
    /\ pc' = "sleep"
    /\ wbuf' = wbuf

\* What the caller does with the rows fetch_t1305 returned, up to its call of
\* write_csv: batch_prices.main (all the rows, none included),
\* download_year_price (new, redo) or step 3 of the update branch.
Returned(rows) ==
    IF mode = "batch"
    THEN /\ wbuf' = rows
         /\ pc' = "open"
         /\ UNCHANGED <<ok, fail, synced, event>>
    ELSE IF mode \in {"new", "redo"}
    THEN IF rows = <<>>
         THEN Failed("empty")
         ELSE /\ wbuf' = rows
              /\ pc' = "open"
              /\ UNCHANGED <<ok, fail, synced, event>>
    ELSE IF \E k \in 1..Len(rows) : Get(rows[k], "date") = None
    THEN Failed("merge_error")
    ELSE LET rows_to_add == NewerThan(rows, last_date)
         IN  IF rows_to_add # <<>>
             THEN /\ wbuf' = UpdatedRows(rows_to_add, prior.rows)
                  /\ pc' = "open"
                  /\ UNCHANGED <<ok, fail, synced, event>>
             ELSE /\ ok' = ok + 1 /\ fail' = fail /\ synced' = synced \cup {Cur}
                  /\ event' = "uptodate"
                  /\ pc' = "sleep"
                  /\ wbuf' = wbuf

\* LS_MOCK: fetch_t1305 returns the generated rows without a request.
MockFetch ==
    /\ pc = "fetch" /\ mock
    /\ ret' = "rows"
    /\ fetched' = MockRows(fcnt)
    /\ Returned(MockRows(fcnt))
    /\ UNCHANGED <<sigVars, cfgVars, histVars, latest, store, runs, i, count, exitCode,
                   mode, prior, last_date, fcnt, total_rows, next_date, tr_cont,
                   nreq, emptyPage, resp, processed, slept>>

\* One round of the while loop: a page is requested and the response handled.
\* Against an upstream of arbitrary pages the requests are counted up to MaxReq,
\* and from the MaxReq-th on a response that keeps the loop going brings no
\* rows (the accumulator stays within the bounds; the loop itself is not cut).
PageRequest ==
    /\ pc = "fetch" /\ ~mock
    /\ \E r \in Responses :
        /\ honest \/ nreq + 1 < MaxReq \/ ~Continues(r) \/ r.rows = <<>>
        /\ nreq' = (IF honest \/ nreq < MaxReq THEN nreq + 1 ELSE nreq)
        /\ resp' = r
        /\ emptyPage' = (emptyPage \/ (~Rejected(r) /\ IsCont(r.tr_cont) /\ r.rows = <<>>))
        /\ IF Rejected(r)
           THEN /\ ret' = "raised"
                /\ Failed("fetch_error")
                /\ UNCHANGED <<total_rows, next_date, tr_cont, fetched>>
           ELSE LET acc  == total_rows \o r.rows
                    nd   == NextDate(r, next_date)
                    more == ~Enough(acc, fcnt) /\ IsCont(r.tr_cont)
                IN  /\ total_rows' = acc
                    /\ tr_cont' = (IF more THEN "Y" ELSE "N")
                    /\ next_date' = (IF more THEN nd ELSE next_date)
                    /\ IF more /\ ~NoCursor(nd)
                       THEN /\ ret' = "none"
                            /\ UNCHANGED <<fetched, ok, fail, synced, event, pc, wbuf>>
                       ELSE /\ ret' = "rows"
                            /\ fetched' = FetchResult(acc, fcnt)
                            /\ Returned(FetchResult(acc, fcnt))
    /\ UNCHANGED <<sigVars, cfgVars, histVars, latest, store, runs, i, count, exitCode,
                   mode, prior, last_date, fcnt, processed, slept>>

(* ------------------------------ write_csv ----------------------------- *)
\* The locals of fetch_t1305 are dead once the caller has taken its rows.
ForgetFetch ==
    /\ fcnt' = 0
    /\ total_rows' = <<>> /\ next_date' = Empty /\ tr_cont' = "N"
    /\ nreq' = 0
    /\ emptyPage' = FALSE
    /\ resp' = NoResp
    /\ ret' = "none"
    /\ fetched' = <<>>

\* os.makedirs or open(path, "w") raises: nothing was written.
OpenFail ==
    /\ pc = "open"
    /\ Failed("io_error")
    /\ ForgetFetch
    /\ UNCHANGED <<sigVars, cfgVars, histVars, latest, store, runs, i, count, exitCode,
                   mode, prior, last_date, processed, slept>>

\* open(path, "w") truncates the file.  Without rows write_csv closes it at
\* once and returns ("if not rows: open(path, "w").close()"), and the caller
\* counts a success.
OpenFile ==
    /\ pc = "open"
    /\ store' = [store EXCEPT ![Cur] = [exists |-> TRUE, rows |-> <<>>]]
    /\ IF wbuf = <<>>
       THEN /\ ok' = ok + 1 /\ fail' = fail /\ synced' = synced \cup {Cur}
            /\ event' = "saved"
            /\ pc' = "sleep"
       ELSE /\ pc' = "write"
            /\ UNCHANGED <<ok, fail, synced, event>>
    /\ ForgetFetch
    /\ UNCHANGED <<sigVars, cfgVars, histVars, latest, runs, i, count, exitCode,
                   mode, prior, last_date, wbuf, processed, slept>>

\* w.writerow of the next row; after the last one the file is closed and the
\* ticker counted as a success.
WriteRow ==
    /\ pc = "write"
    /\ LET k == Len(store[Cur].rows) + 1
       IN  /\ store' = [store EXCEPT ![Cur].rows =
                            Append(@, CsvRow(CsvCols(wbuf), wbuf[k]))]
           /\ IF k = Len(wbuf)
              THEN /\ ok' = ok + 1 /\ fail' = fail /\ synced' = synced \cup {Cur}
                   /\ event' = "saved"
                   /\ pc' = "sleep"
              ELSE UNCHANGED <<ok, fail, synced, event, pc>>
    /\ UNCHANGED <<sigVars, cfgVars, histVars, latest, runs, i, count, exitCode, mode,
                   prior, last_date, fetchVars, wbuf, processed, slept>>

\* A write raises part-way (disk full, I/O error): the rows written so far stay.
WriteFail ==
    /\ pc = "write"
    /\ Failed("io_error")
    /\ UNCHANGED <<sigVars, cfgVars, histVars, latest, store, runs, i, count, exitCode,
                   mode, prior, last_date, fetchVars, processed, slept>>

\* The locals of one round of the for loop are dead once the round is over.
ForgetLocals ==
    /\ mode' = "none"
    /\ prior' = Absent
    /\ last_date' = None
    /\ ForgetFetch
    /\ wbuf' = <<>>

\* the sleep placed inside the try block, after the success count
DelayAfterSuccess(ev) == ev \in {"saved", "uptodate"}

\* The sleep stands after the if/else and its except clauses, and before the
\* "continue" of the re-download: it runs whatever the round's outcome ev.
Delay(ev) == TRUE

\* time.sleep(max(0.0, args.sleep_sec)), then the next ticker.
Sleep ==
    /\ pc = "sleep"
    /\ slept' = Delay(event)
    /\ i' = i + 1
    /\ pc' = "loop"
    /\ event' = "none"
    /\ ForgetLocals
    /\ UNCHANGED <<sigVars, cfgVars, histVars, latest, store, runs, tallyVars, exitCode,
                   processed>>

Next ==
    \/ StartRun
    \/ NewBar
    \/ LoopExit
    \/ SkipExisting
    \/ BeginExisting
    \/ ReadFail
    \/ BeginNew
    \/ MockFetch
    \/ PageRequest
    \/ OpenFail
    \/ OpenFile
    \/ WriteRow
    \/ WriteFail
    \/ Sleep

Spec == Init /\ [][Next]_vars

\* The process is never suspended for good: main() takes its next step whenever
\* it has one.  What the upstream answers is not constrained.
FairSpec == Spec /\ WF_vars(Next)

(* --------------------- runs after a long pause ------------------------ *)
\* A second specification of the same program: one ticker, and a store that
\* may already hold a file, the snapshot an earlier download of n bars wrote
\* or a file that is empty or invalid; between runs the well-behaved series
\* may gain many periods at once.

\* the snapshot a completed download of the n newest of top periods wrote
Downloaded(top, n) == CsvFile([j \in 1..n |-> Bar(top + 1 - j)])

\* a file without rows, as write_csv leaves it when it is given none
EmptyFile == [exists |-> TRUE, rows |-> <<>>]

\* a file whose first row has a blank date cell
Undated == [exists |-> TRUE, rows |-> <<[date |-> Empty, close |-> 101, sign |-> 2]>>]

GapInit ==
    /\ tickers = <<1>>
    /\ mock \in BOOLEAN
    /\ honest \in BOOLEAN
    /\ mock => honest
    /\ cnt \in 1..MaxCnt
    /\ latest \in (IF honest /\ ~mock THEN 1..(MaxDate - 1) ELSE {MaxDate})
    /\ skip_existing \in BOOLEAN
    /\ \E f \in {Absent, EmptyFile, Undated}
                 \cup {Downloaded(latest, n) : n \in 1..Min(latest, MaxCnt)} :
          store = [t \in TickerIds |-> IF t = 1 THEN f ELSE Absent]
    /\ runs = 0
    /\ pc = "start"
    /\ i = 0
    /\ count = 0 /\ ok = 0 /\ fail = 0
    /\ exitCode = None
    /\ mode = "none"
    /\ prior = Absent
    /\ last_date = None
    /\ fcnt = 0
    /\ total_rows = <<>> /\ next_date = Empty /\ tr_cont = "N"
    /\ nreq = 0
    /\ emptyPage = FALSE
    /\ resp = NoResp
    /\ ret = "none"
    /\ fetched = <<>>
    /\ wbuf = <<>>
    /\ event = "none"
    /\ processed = [t \in TickerIds |-> 0]
    /\ slept = FALSE
    /\ synced = {}
    /\ prevSynced = {}
    /\ grew = FALSE
    /\ SigIdle

\* While main() is not running the upstream series gains k periods (the tool
\* was not run for k trading days).
NewBars ==
    /\ pc \in {"start", "done"}
    /\ honest /\ ~mock
    /\ \E k \in 2..MaxGap :
        /\ latest + k <= MaxDate + MaxGap
        /\ latest' = latest + k
    /\ grew' = TRUE
    /\ prevSynced' = prevSynced
    /\ UNCHANGED <<sigVars, cfgVars, store, runs, pc, i, tallyVars, exitCode,
                   mode, prior, last_date, fetchVars, wbuf, event, processed, slept>>

GapNext ==
    \/ StartRun
    \/ NewBar
    \/ NewBars
    \/ LoopExit
    \/ SkipExisting
    \/ BeginExisting
    \/ ReadFail
    \/ BeginNew
    \/ MockFetch
    \/ PageRequest
    \/ OpenFail
    \/ OpenFile
    \/ WriteRow
    \/ WriteFail
    \/ Sleep

SpecGap == GapInit /\ [][GapNext]_vars

(* ----------------------- src/apps/batch_prices.py --------------------- *)
\* The loop of batch_prices.main: the same fetch_t1305 and write_csv, every
\* ticker of the batch (no "count"), and each result written as it comes.

\* "if args.skip_existing and os.path.exists(out_csv): ... continue"
BatchSkip ==
    /\ InLoop
    /\ store[Cur].exists /\ skip_existing
    /\ processed' = [processed EXCEPT ![Cur] = @ + 1]
    /\ ok' = ok + 1 /\ fail' = fail /\ synced' = synced \cup {Cur}
    /\ event' = "skipped"
    /\ i' = i + 1
    /\ UNCHANGED <<sigVars, cfgVars, histVars, latest, store, runs, pc, count, exitCode,
                   mode, prior, last_date, fetchVars, wbuf, slept>>

\* the try block is entered: fetch_t1305(t, cnt = args.cnt)
BatchBegin ==
    /\ InLoop
    /\ ~(store[Cur].exists /\ skip_existing)
    /\ processed' = [processed EXCEPT ![Cur] = @ + 1]
    /\ prior' = store[Cur]
    /\ slept' = FALSE
    /\ mode' = "batch"
    /\ last_date' = None
    /\ StartFetch(cnt)
    /\ event' = "none"
    /\ pc' = "fetch"
    /\ UNCHANGED <<sigVars, cfgVars, histVars, latest, store, runs, i, tallyVars,
                   exitCode, wbuf>>

BatchNext ==
    \/ StartRun
    \/ NewBar
    \/ LoopExit
    \/ BatchSkip
    \/ BatchBegin
    \/ MockFetch
    \/ PageRequest
    \/ OpenFail
    \/ OpenFile
    \/ WriteRow
    \/ WriteFail
    \/ Sleep

SpecBatch == Init /\ [][BatchNext]_vars

(* ============================ src/apps/signals.py ===================== *)
(* ----------------------------- arithmetic ----------------------------- *)
\* one, in the millionths the model keeps a float in
Micro == 1000000

RECURSIVE FracDigits(_, _, _)
\* the decimals of r / b (0 <= r < b), one digit per power of ten of scale
FracDigits(r, b, scale) ==
    IF scale = 1 THEN 0
    ELSE LET t == r * 10
         IN  (t \div b) * (scale \div 10) + FracDigits(t % b, b, scale \div 10)

\* a / b (b > 0), in millionths
Div(a, b) == (a \div b) * Micro + FracDigits(a % b, b, Micro)

\* w * x for a weight of w hundredths
Weighted(w, x) == (x \div 100) * w + ((x % 100) * w) \div 100

\* round(x, n): x to the nearest multiple of unit, a tie to the even one
Round(x, unit) ==
    LET q == x \div unit
        r == x % unit
    IN  IF 2 * r < unit THEN q
        ELSE IF 2 * r > unit THEN q + 1
        ELSE IF q % 2 = 0 THEN q ELSE q + 1

\* a / b to the nearest integer, a tie to the even one
RoundDiv(a, b) ==
    LET q == a \div b
        r == a % b
    IN  IF 2 * r < b THEN q
        ELSE IF 2 * r > b THEN q + 1
        ELSE IF q % 2 = 0 THEN q ELSE q + 1

\* an optional value: None is <<>>
Nothing == <<>>
Some(x) == <<x>>

(* --------------------------- read_prices_csv -------------------------- *)
\* a cell that is blank, "nan" or not a number
Unparsed == -2

\* safe_float(x): None for a missing, blank, "nan" or unparsable cell
safe_float(x) == IF x \in {None, Unparsed} THEN None ELSE x

\* the row passes "if d and o is not None and ... and v_int is not None"
ValidRow(r) ==
    /\ Truthy(Get(r, "date"))
    /\ \A k \in {"open", "high", "low", "close", "volume"} : safe_float(Get(r, k)) # None

\* entries of the same key come out in the reverse of their input order
SortPosTiesReversed(s, f, k) ==
    1 + Cardinality({j \in 1..Len(s) :
                        s[j][f] > s[k][f] \/ (s[j][f] = s[k][f] /\ j > k)})

\* Where list.sort(key = f, reverse = True) puts s[k]: behind the entries of a
\* larger key and, the sort being stable (reverse included), behind the
\* entries of the same key that came before it.
SortPos(s, f, k) ==
    1 + Cardinality({j \in 1..Len(s) :
                        s[j][f] > s[k][f] \/ (s[j][f] = s[k][f] /\ j < k)})

SortDesc(s, f) ==
    LET n   == Len(s)
        pos == SubSeq([k \in 1..n |-> SortPos(s, f, k)], 1, n)
        at  == SubSeq([q \in 1..n |-> CHOOSE k \in 1..n : pos[k] = q], 1, n)
    IN  [q \in 1..n |-> s[at[q]]]

\* the valid rows, newest first
read_prices_csv(rows) == SortDesc(SelectSeq(rows, ValidRow), "date")

(* --------------------- compute_signals_for_ticker --------------------- *)
\* cnt / len(arr) * 100.0
pct_rank(value, arr) ==
    IF arr = <<>> THEN 0
    ELSE Div(100 * Cardinality({k \in 1..Len(arr) : arr[k] <= value}), Len(arr))

RECURSIVE SumRange(_, _, _)
\* sum of the closes of bars lo..hi
SumRange(bars, lo, hi) ==
    IF lo > hi THEN 0
    ELSE IF lo = hi THEN bars[lo].close
    ELSE LET half == (lo + hi) \div 2
         IN  SumRange(bars, lo, half) + SumRange(bars, half + 1, hi)

\* sum of the closes of the first n bars
SumCloses(bars, n) == SumRange(bars, 1, n)

MaxHigh(bars) ==
    LET hs == {bars[k].high : k \in 1..Len(bars)}
    IN  CHOOSE m \in hs : \A h \in hs : m >= h

\* normalize_ret20: -20..+20 mapped to 0..100
normalize_ret20(x) ==
    IF x = Nothing THEN 50 * Micro
    ELSE IF x[1] <= -20 * Micro THEN 0
    ELSE IF x[1] >= 20 * Micro THEN 100 * Micro
    ELSE ((x[1] + 20 * Micro) * 5) \div 2

\* What the score is built from, unrounded, for bars that are at least
\* lookback long and whose closes[20], where there is one, is not zero.
Features(bars, lb) ==
    LET close0  == bars[1].close
        window  == Take(bars, lb)
        high60  == MaxHigh(window)
        proximity_pct ==
            IF high60 <= 0 THEN 0 ELSE Div(100 * (high60 - close0), high60)
        ret20   == IF Len(bars) > Ret20Offset
                   THEN Some(Div(100 * close0, bars[Ret20Offset + 1].close) - 100 * Micro)
                   ELSE Nothing
        has20   == Len(window) >= MaShort
        has60   == Len(window) >= MaLong
        sum20   == IF has20 THEN SumCloses(window, MaShort) ELSE 0
        sum60   == IF has60 THEN SumCloses(window, MaLong) ELSE 0
        above_ma20 == has20 /\ close0 * MaShort > sum20
        trend_ma   == has20 /\ has60 /\ sum20 * MaLong > sum60 * MaShort
    IN  [close0 |-> close0, high60 |-> high60,
         proximity_pct |-> proximity_pct,
         proximity_score |-> Max(0, 100 * Micro - proximity_pct),
         ret20 |-> ret20,
         ret20_normalized |-> normalize_ret20(ret20),
         vol_pct |-> pct_rank(bars[1].volume,
                              [k \in 1..Len(window) |-> window[k].volume]),
         ma20 |-> IF has20 THEN Some(RoundDiv(sum20 * 100, MaShort)) ELSE Nothing,
         ma60 |-> IF has60 THEN Some(RoundDiv(sum60 * 100, MaLong)) ELSE Nothing,
         above_ma20 |-> above_ma20, trend_ma |-> trend_ma,
         ma_points |-> ((IF above_ma20 THEN 50 ELSE 0)
                        + (IF trend_ma THEN 50 ELSE 0)) * Micro]

\* score, before round(score, 3)
Score(x) ==
    Weighted(w_prox, x.proximity_score) + Weighted(w_ret, x.ret20_normalized)
        + Weighted(w_vol, x.vol_pct) + Weighted(w_ma, x.ma_points)

\* The call's outcome: no result (too few bars), ZeroDivisionError raised by
\* close0 / closes[20], or the SignalResult.  Rounded values are in units of
\* their last decimal: score in thousandths, percentages in hundredths,
\* vol_percentile in tenths.
compute_signals_for_ticker(ticker, rows, lb) ==
    LET bars == read_prices_csv(rows)
    IN  IF Len(bars) < lb THEN [kind |-> "none"]
        ELSE IF Len(bars) > Ret20Offset /\ bars[Ret20Offset + 1].close = 0
        THEN [kind |-> "raised"]
        ELSE LET x == Features(bars, lb)
             IN  [kind |-> "result",
                  ticker |-> ticker,
                  date |-> bars[1].date,
                  score |-> Round(Score(x), 1000),
                  metrics |->
                     [close |-> x.close0,
                      high60 |-> x.high60,
                      proximity_pct |-> Round(x.proximity_pct, 10000),
                      proximity_score |-> Round(x.proximity_score, 10000),
                      ret20_pct |-> IF x.ret20 = Nothing THEN Nothing
                                    ELSE Some(Round(x.ret20[1], 10000)),
                      vol_percentile |-> Round(x.vol_pct, 100000),
                      ma20 |-> x.ma20, ma60 |-> x.ma60,
                      above_ma20 |-> x.above_ma20,
                      ma20_gt_ma60 |-> x.trend_ma]]

\* the SignalResult of an outcome of kind "result"
SignalResult(o) ==
    [ticker |-> o.ticker, date |-> o.date, score |-> o.score, metrics |-> o.metrics]

(* --------------------------- the price files -------------------------- *)
\* The closes of a file: c0 today, mid on the 19 days before, c20 twenty
\* days back, old before that; hi is the one high above its close; v0 is
\* today's volume.
Profiles ==
    { [c0 |-> 70000, mid |-> 65000, c20 |-> 63636, old |-> 60000, hi |-> 75000, v0 |-> 200],
      [c0 |-> 70000, mid |-> 65000, c20 |-> 63636, old |-> 60000, hi |-> 74998, v0 |-> 200],
      [c0 |-> 70000, mid |-> 65000, c20 |-> 63636, old |-> 60000, hi |-> 74999, v0 |-> 200],
      [c0 |-> 70000, mid |-> 65000, c20 |-> 0,     old |-> 60000, hi |-> 75000, v0 |-> 200] }

\* bar k (1 is the newest) of the n bars of profile p: the high is the close,
\* but hi on the bar before the newest, and never above hi
ProfileBar(p, n, k) ==
    LET c == IF k = 1 THEN p.c0
             ELSE IF k = Ret20Offset + 1 THEN p.c20
             ELSE IF k <= Ret20Offset THEN p.mid ELSE p.old
    IN  [date |-> n + 1 - k, open |-> c, low |-> c, close |-> c,
         high |-> IF k = 2 THEN p.hi ELSE Min(c, p.hi),
         volume |-> IF k = 1 THEN p.v0 ELSE IF k <= 48 THEN 100 ELSE 300]

\* a row newer than all the others whose close cannot be read
BadRow(n) ==
    [date |-> n + 1, open |-> 1, low |-> 1, close |-> Unparsed, high |-> 1, volume |-> 1]

\* the rows of a file with n valid bars: newest first or oldest first, with or
\* without an unreadable row on top
FileRows(p, n, asc, bad) ==
    LET bars == [k \in 1..n |-> ProfileBar(p, n, IF asc THEN n + 1 - k ELSE k)]
    IN  (IF bad THEN <<BadRow(n)>> ELSE <<>>) \o bars

\* the profile of the files with an unreadable row
BaseProfile ==
    [c0 |-> 70000, mid |-> 65000, c20 |-> 63636, old |-> 60000, hi |-> 75000, v0 |-> 200]

\* a profile whose highs all lie below its closes (the engine does not
\* enforce close <= high)
HighBelowClose ==
    [c0 |-> 70000, mid |-> 65000, c20 |-> 63636, old |-> 60000, hi |-> 35000, v0 |-> 200]

\* the files a directory may hold when the lookback is lb: lb valid bars of
\* each profile, and two files of lb rows and more with an unreadable row on
\* top, of lb - 1 valid bars and of lb valid bars oldest first, the latter
\* with its highs below its closes
PriceFiles(lb) ==
    {FileRows(p, lb, FALSE, FALSE) : p \in Profiles}
        \cup {FileRows(BaseProfile, lb - 1, FALSE, TRUE),
              FileRows(HighBelowClose, lb, TRUE, TRUE)}

(* ------------------------------- feeds -------------------------------- *)
\* rank counted from 0
TopNFromZero(items) ==
    [k \in 1..Len(items) |->
        [rank |-> k - 1, ticker |-> items[k].ticker, score |-> items[k].score,
         date |-> items[k].date, metrics |-> items[k].metrics]]

\* items[:top_n], a negative top_n counting from the end
Slice(items, n) ==
    IF n >= 0 THEN Take(items, n) ELSE SubSeq(items, 1, Max(Len(items) + n, 0))

\* the payload of write_topn_json for the items already sliced
TopN(items) ==
    [k \in 1..Len(items) |->
        [rank |-> k, ticker |-> items[k].ticker, score |-> items[k].score,
         date |-> items[k].date, metrics |-> items[k].metrics]]

\* the lines write_jsonl writes
Jsonl(items) ==
    [k \in 1..Len(items) |->
        [ticker |-> items[k].ticker, date |-> items[k].date,
         score |-> items[k].score, metrics |-> items[k].metrics]]

(* --------------------------- signals.main() --------------------------- *)
SigInit ==
    /\ tickers = <<>> /\ cnt = 1 /\ mock = FALSE /\ honest = TRUE
    /\ skip_existing = FALSE /\ latest = MaxDate
    /\ store = [t \in TickerIds |-> Absent]
    /\ runs = 0 /\ pc = "idle" /\ i = 0
    /\ count = 0 /\ ok = 0 /\ fail = 0 /\ exitCode = None
    /\ mode = "none" /\ prior = Absent /\ last_date = None
    /\ fcnt = 0 /\ total_rows = <<>> /\ next_date = Empty /\ tr_cont = "N"
    /\ nreq = 0 /\ emptyPage = FALSE /\ resp = NoResp /\ ret = "none" /\ fetched = <<>>
    /\ wbuf = <<>> /\ event = "none"
    /\ processed = [t \in TickerIds |-> 0]
    /\ slept = FALSE /\ synced = {} /\ prevSynced = {} /\ grew = FALSE
    /\ prices_dir_ok \in BOOLEAN
    /\ lookback \in {SmallLookback, DefaultLookback}
    /\ files \in (IF prices_dir_ok THEN SeqsUpTo(PriceFiles(lookback), MaxFiles)
                  ELSE {<<>>})
    /\ top_n \in -1..MaxTopN
    /\ spc = "start"
    /\ fi = 0
    /\ results = <<>>
    /\ out_jsonl = <<>>
    /\ out_top = <<>>
    /\ sigExit = None

\* "if not os.path.isdir(prices_dir): return 2", else the files are listed
SigStart ==
    /\ spc = "start"
    /\ IF prices_dir_ok
       THEN spc' = "scan" /\ fi' = 1 /\ sigExit' = None
       ELSE spc' = "done" /\ fi' = fi /\ sigExit' = 2
    /\ UNCHANGED <<syncVars, prices_dir_ok, files, lookback, top_n, results,
                   out_jsonl, out_top>>

\* One round of the for loop.  An exception of compute_signals_for_ticker is
\* caught nowhere: it ends main() before anything is written.
Compute ==
    /\ spc = "scan" /\ fi <= Len(files)
    /\ LET res == compute_signals_for_ticker(fi, files[fi], lookback)
       IN  IF res.kind = "raised"
           THEN spc' = "crashed" /\ sigExit' = 1 /\ UNCHANGED <<fi, results>>
           ELSE /\ fi' = fi + 1
                /\ results' = (IF res.kind = "none" THEN results
                               ELSE Append(results, SignalResult(res)))
                /\ UNCHANGED <<spc, sigExit>>
    /\ UNCHANGED <<syncVars, prices_dir_ok, files, lookback, top_n, out_jsonl, out_top>>

\* results.sort(key=lambda x: x.score, reverse=True)
SortResults ==
    /\ spc = "scan" /\ fi > Len(files)
    /\ results' = SortDesc(results, "score")
    /\ spc' = "write"
    /\ UNCHANGED <<syncVars, prices_dir_ok, files, lookback, top_n, fi,
                   out_jsonl, out_top, sigExit>>

\* write_jsonl(out_jsonl, results)
WriteJsonl ==
    /\ spc = "write"
    /\ out_jsonl' = Jsonl(results)
    /\ spc' = "top"
    /\ UNCHANGED <<syncVars, prices_dir_ok, files, lookback, top_n, fi, results,
                   out_top, sigExit>>

\* write_topn_json(out_top, results, args.top_n), the preview, "return 0"
WriteTopN ==
    /\ spc = "top"
    /\ out_top' = TopN(Slice(results, top_n))
    /\ spc' = "done"
    /\ sigExit' = 0
    /\ UNCHANGED <<syncVars, prices_dir_ok, files, lookback, top_n, fi, results,
                   out_jsonl>>

SigNext ==
    \/ SigStart
    \/ Compute
    \/ SortResults
    \/ WriteJsonl
    \/ WriteTopN

SpecSignals == SigInit /\ [][SigNext]_vars

(* ------------------------------- claims ------------------------------- *)
Working == mode \in {"new", "redo", "update"}

\* C1: after any sequence of runs every stored snapshot has pairwise distinct
\* dates, strictly descending (newest first).
C1_SnapshotsStrictlyDescending ==
    pc = "done" => \A t \in TickerIds : StrictlyDescending(store[t].rows)

C3_AtomicWrites ==
    /\ (Working /\ pc \in {"open", "write", "sleep"})
          => \/ store[Cur] = prior
             \/ wbuf # <<>> /\ store[Cur] = CsvFile(wbuf)
    /\ (Working /\ pc = "sleep" /\ event = "io_error") => store[Cur] = prior

\* C4: the update branch hands write_csv exactly the fetched rows dated after
\* the newest stored date D, in fetched order, followed by the stored rows in
\* their order, and the file then holds them in that order; when no fetched
\* row is newer nothing is written and the file stays as it was.
C4_AppendNew ==
    /\ (mode = "update" /\ ret = "rows") =>
          LET D   == prior.rows[1].date
              add == SelectSeq(fetched, LAMBDA r : r.date > D)
          IN  /\ store[Cur] = prior
              /\ IF add # <<>>
                 THEN pc = "open" /\ wbuf = add \o prior.rows
                 ELSE pc = "sleep" /\ event = "uptodate"
    /\ (mode = "update" /\ pc = "sleep" /\ event = "saved") =>
          Dates(store[Cur].rows) = Dates(wbuf)

\* existing newest date D = 2, incoming dates {D+2, D+1, D, D-1}
C4_Witness ==
    /\ mode = "update" /\ ret = "rows" /\ pc = "open"
    /\ Dates(prior.rows) = <<2, 1>>
    /\ Dates(fetched) = <<4, 3, 2, 1>>
    /\ Dates(wbuf) = <<4, 3, 2, 1>>

\* C5: merging the same catch-up result into a snapshot twice gives the
\* snapshot that merging it once gives.
C5_MergeTwiceIsMergeOnce ==
    (mode = "update" /\ ret = "rows") =>
        Merged(fetched, Merged(fetched, prior.rows)) = Merged(fetched, prior.rows)

\* C6: fetch_t1305(cnt = n) never returns more than n rows.
C6_AtMostRequested == ret = "rows" => Len(fetched) <= fcnt

\* the last page overshot and the excess was cut
C6_Witness ==
    /\ ret = "rows" /\ ~mock
    /\ Len(total_rows) > fcnt
    /\ Len(fetched) = fcnt

\* C7: the rows fetch_t1305 returns are newest first with no date twice.
C7_FetchedNewestFirstUnique ==
    ret = "rows" => NewestFirst(fetched) /\ NoDuplicateDates(fetched)

\* C8: when the first response sets the continuation header and carries no
\* next date, the fetch ends after that one request and returns the page's
\* rows, cut to cnt, not an error.
C8_EmptyCursorEndsFetch ==
    (/\ nreq = 1 /\ resp.kind = "json" /\ resp.rsp_cd \in {RspOk, ""}
     /\ resp.tr_cont \in {"Y", "y"}
     /\ resp.date \in {None, Empty})
        => /\ ret = "rows"
           /\ fetched = Take(resp.rows, fcnt)
           /\ event # "fetch_error"

C8_Witness ==
    /\ nreq = 1 /\ resp.kind = "json" /\ resp.tr_cont = "y" /\ resp.date = Empty
    /\ resp.rows # <<>> /\ Len(resp.rows) < fcnt
    /\ ret = "rows" /\ fetched = resp.rows

\* C9: when a run over a non-empty batch ends, the loop body ran exactly once
\* for each distinct ticker of the batch.
C9_EveryTickerProcessedOnce ==
    (pc = "done" /\ tickers # <<>>) =>
        \A k \in 1..Len(tickers) : processed[tickers[k]] = 1

\* C10: a fetch error, an empty fetch result and an I/O error each add one to
\* fail, nothing to ok, and the loop goes on to the sleep and the next ticker.
C10_FailuresCounted ==
    [][(\/ ret = "none" /\ ret' = "raised"
        \/ ret = "none" /\ ret' = "rows" /\ fetched' = <<>>
        \/ event # "io_error" /\ event' = "io_error")
          => (fail' = fail + 1 /\ ok' = ok /\ pc' = "sleep")]_vars

\* C11: when the loop of a run over a non-empty batch has ended, the exit status
\* is non-zero exactly when the failure counter is above zero.
C11_ExitStatusTellsFailure ==
    (pc = "done" /\ runs >= 1 /\ tickers # <<>>) =>
        /\ exitCode \in {0, 1}
        /\ (exitCode # 0) <=> (fail > 0)

\* a run in which one ticker succeeded and another failed
C11_Witness ==
    /\ pc = "done" /\ tickers # <<>>
    /\ ok > 0 /\ fail > 0
    /\ exitCode = 1

\* C12: a transport failure of a page request is retried for that page, so
\* the fetch has not failed when only its first request has failed.
C12_TransportFailureRetried ==
    (nreq = 1 /\ resp.kind = "transport") => ret # "raised"

\* C13: a response whose status code is set and is not "00000" fails the fetch
\* at once: its page is not appended, nothing is returned or written, and no
\* further request is made before the next ticker.
C13_RejectionFailsFetchAtOnce ==
    [][/\ (pc = "fetch" /\ ~mock /\ resp'.kind = "json"
            /\ resp'.rsp_cd \notin {"", RspOk})
          => /\ ret' = "raised" /\ pc' = "sleep" /\ event' = "fetch_error"
             /\ total_rows' = total_rows /\ fetched' = <<>>
             /\ fail' = fail + 1 /\ ok' = ok
             /\ store' = store
       /\ ret = "raised"
          => /\ store' = store
             /\ pc' = "loop" \/ UNCHANGED <<resp, nreq, total_rows, ret, fetched>>
      ]_vars

\* the second page of a catch-up fetch is rejected after the first was kept
C13_Witness ==
    /\ mode = "update" /\ ret = "raised" /\ pc = "sleep"
    /\ nreq = 2 /\ resp.rsp_cd = "IGW00121" /\ resp.rows # <<>>
    /\ total_rows # <<>> /\ fetched = <<>>
    /\ store[Cur] = prior

\* C14: a response without a status code, or with an empty one, is a hard
\* error of the fetch.
C14_MissingStatusIsError ==
    (resp.kind = "json" /\ resp.rsp_cd = "") => ret = "raised"

\* C20: every fetch ends, whatever the upstream answers.
C20_FetchTerminates == (pc = "fetch") ~> (pc # "fetch")

\* C15: a file with exactly lookback - 1 valid bars adds no SignalResult, and a
\* file with exactly lookback valid bars adds exactly one, its own.
C15_LookbackBoundary ==
    [][(spc = "scan" /\ fi <= Len(files)) =>
          LET n == Len(SelectSeq(files[fi], ValidRow))
          IN  /\ n = lookback - 1 => (results' = results /\ fi' = fi + 1)
              /\ n = lookback =>
                    /\ fi' = fi + 1
                    /\ Len(results') = Len(results) + 1
                    /\ SubSeq(results', 1, Len(results)) = results
                    /\ results'[Len(results')].ticker = fi
      ]_vars

\* C16: a 60-bar file with close 70000, 60-bar high 75000, ret20_pct 10,
\* vol_percentile 80 and both moving-average conditions met is reported with
\* proximity_pct 6.67, proximity_score 93.33 and score 86.165.
C16_WorkedExample ==
    \A k \in 1..Len(results) :
        LET r == results[k]
            m == r.metrics
        IN  (/\ Len(SelectSeq(files[r.ticker], ValidRow)) = 60
             /\ m.close = 70000 /\ m.high60 = 75000
             /\ m.ret20_pct = Some(1000)
             /\ m.vol_percentile = 800
             /\ m.above_ma20 /\ m.ma20_gt_ma60)
                => /\ m.proximity_pct = 667
                   /\ m.proximity_score = 9333
                   /\ r.score = 86165

\* C17: of two results with the same ret20_normalized, vol_pct and ma_points,
\* the one with the larger proximity_score has the larger score.
C17_ScoreStrictlyMonotone ==
    \A j, k \in 1..Len(results) :
        (/\ results[j].metrics.proximity_score > results[k].metrics.proximity_score
         /\ results[j].score <= results[k].score)
            => LET a == Features(read_prices_csv(files[results[j].ticker]), lookback)
                   b == Features(read_prices_csv(files[results[k].ticker]), lookback)
               IN  ~(/\ a.ret20_normalized = b.ret20_normalized
                     /\ a.vol_pct = b.vol_pct
                     /\ a.ma_points = b.ma_points)

\* the results as they are ranked: by score, the higher first, and two of the
\* same score in the order of their files
Ranked(items) ==
    \A j, k \in 1..Len(items) :
        j < k => \/ items[j].score > items[k].score
                 \/ items[j].score = items[k].score /\ items[j].ticker < items[k].ticker

\* C18: once sorted, the results are in non-increasing order of score, results
\* of the same score in the order in which their files were read, and the
\* full feed is written in that order.
C18_RankedByScoreStable ==
    /\ spc \in {"write", "top", "done"} /\ sigExit # 2 => Ranked(results)
    /\ spc \in {"top", "done"} /\ sigExit # 2
          => Ranked(out_jsonl) /\ Len(out_jsonl) = Len(results)

\* the third file outranks the first two, which tie
C18_Witness ==
    /\ spc = "done" /\ Len(out_jsonl) = 3
    /\ [k \in 1..3 |-> out_jsonl[k].ticker] = <<3, 1, 2>>
    /\ out_jsonl[1].score > out_jsonl[2].score
    /\ out_jsonl[2].score = out_jsonl[3].score

\* C19: for a top_n that is not negative, the Top-N feed is the first
\* min(top_n, L) entries of the full feed of L entries, in its order, and the
\* entry at position k carries rank k.
C19_TopNIsPrefix ==
    (spc = "done" /\ sigExit = 0 /\ top_n >= 0) =>
        /\ Len(out_top) = Min(top_n, Len(out_jsonl))
        /\ \A k \in 1..Len(out_top) :
              /\ out_top[k].rank = k
              /\ [ticker |-> out_top[k].ticker, date |-> out_top[k].date,
                  score |-> out_top[k].score, metrics |-> out_top[k].metrics]
                    = out_jsonl[k]

\* the two best of three results, and an empty Top-0 is among the runs too
C19_Witness ==
    /\ spc = "done" /\ sigExit = 0
    /\ top_n = 2 /\ Len(out_jsonl) = 3 /\ Len(out_top) = 2
    /\ out_top[2].rank = 2 /\ out_top[2].ticker = out_jsonl[2].ticker
    /\ out_jsonl[2].score > out_jsonl[3].score

\* C21: after an accepted page response the fetch goes on to another request
\* only when fewer than cnt rows are accumulated, the response sets the
\* continuation header and that same response carries a non-empty next date;
\* a continuing response without a next date, on any page, ends the fetch
\* with the rows accumulated so far.
C21_ContinuationNeedsOwnCursor ==
    /\ (pc = "fetch" /\ ~mock /\ nreq >= 1)
          => /\ Len(total_rows) < fcnt
             /\ IsCont(resp.tr_cont)
             /\ Truthy(resp.date)
    /\ (resp.kind = "json" /\ ~Rejected(resp) /\ IsCont(resp.tr_cont)
         /\ ~Truthy(resp.date))
          => /\ ret = "rows"
             /\ fetched = Take(total_rows, fcnt)

\* C22 as stated: the branch follows from the store alone; an existing snapshot
\* always gets the catch-up fetch of 10 and the append-new merge, a missing one
\* the download of cnt bars.  (A failure to read the file is left aside.)
C22_ModeFromStoreAlone ==
    [][/\ (InLoop /\ event' # "io_error")
          => /\ ~store[Cur].exists
                => pc' = "fetch" /\ mode' = "new" /\ fcnt' = cnt
             /\ store[Cur].exists
                => /\ pc' = "fetch" /\ mode' = "update"
                   /\ fcnt' = UpdateBufferCnt /\ next_date' = Empty
       /\ (pc = "fetch" /\ pc' = "open")
          => /\ ~prior.exists => wbuf' = fetched'
             /\ prior.exists
                => wbuf' = NewerThan(fetched', LastDate(prior.rows)) \o prior.rows
      ]_vars

\* C22, amended: the branch follows from the store and --skip-existing.  No
\* file: one fetch for cnt bars from an empty anchor, and the whole result goes
\* to write_csv.  A file and --skip-existing: no fetch, the file is left alone.
\* A file whose first row has a date, read without --skip-existing: one fetch
\* for 10 bars from an empty anchor, and write_csv gets the rows newer than
\* that date followed by all the stored rows.
C22_ModeFromStoreAndOption ==
    [][/\ InLoop
          => /\ ~store[Cur].exists
                => /\ pc' = "fetch" /\ mode' = "new"
                   /\ fcnt' = cnt /\ next_date' = Empty /\ nreq' = 0
                   /\ store' = store
             /\ (store[Cur].exists /\ skip_existing)
                => /\ pc' = "loop" /\ i' = i + 1 /\ ok' = ok + 1
                   /\ nreq' = nreq /\ store' = store
             /\ (store[Cur].exists /\ ~skip_existing
                 /\ Truthy(LastDate(store[Cur].rows)) /\ event' # "io_error")
                => /\ pc' = "fetch" /\ mode' = "update"
                   /\ fcnt' = UpdateBufferCnt /\ next_date' = Empty /\ nreq' = 0
                   /\ store' = store
       /\ (pc' = "fetch" /\ pc # "fetch") => pc = "loop"
       /\ (pc = "fetch" /\ pc' = "open")
          => /\ mode = "new" => wbuf' = fetched'
             /\ mode = "update"
                => /\ prior = store[Cur]
                   /\ wbuf' = NewerThan(fetched', prior.rows[1].date) \o prior.rows
      ]_vars

\* a catch-up of more rows than --cnt asks for, merged in front of the old rows
C22_Witness ==
    /\ mode = "update" /\ pc = "open" /\ ~mock
    /\ fcnt = UpdateBufferCnt /\ Len(fetched) > cnt
    /\ Len(wbuf) > Len(prior.rows)
    /\ SubSeq(wbuf, Len(wbuf) - Len(prior.rows) + 1, Len(wbuf)) = prior.rows

\* C23: main() moves from one ticker to the next only through the rate-limit
\* sleep, whether the round succeeded or failed in its fetch, merge or write;
\* the one way past it is the --skip-existing "continue", on which no request
\* was made for the ticker.
C23_DelayBetweenTickers ==
    [][/\ (pc \notin {"start", "done"} /\ i' # i)
          => /\ i' = i + 1
             /\ \/ pc = "sleep" /\ slept'
                \/ /\ InLoop /\ store[Cur].exists /\ skip_existing
                   /\ nreq = 0 /\ nreq' = 0 /\ resp' = resp
       /\ pc = "sleep" => (slept' /\ i' = i + 1 /\ pc' = "loop")
      ]_vars

\* the first ticker's fetch or write failed, the sleep ran, the second is next
C23_Witness ==
    /\ runs = 1 /\ pc = "loop" /\ i = 2 /\ Len(tickers) >= 2
    /\ ~mock /\ fail = 1 /\ ok = 0
    /\ slept

\* C24: when an append-new merge has been written, the rows the snapshot held
\* before are its last rows, each with the field names and values it had.
C24_MergeKeepsStoredRows ==
    (mode = "update" /\ pc = "sleep" /\ event = "saved") =>
        LET n == Len(store[Cur].rows)
            m == Len(prior.rows)
        IN  /\ n > m
            /\ SubSeq(store[Cur].rows, n - m + 1, n) = prior.rows

\* the k newest periods of the upstream series, newest first
NewestDates(k) == [j \in 1..k |-> latest + 1 - j]

Contiguous(ds) == \A j \in 1..(Len(ds) - 1) : ds[j] = ds[j + 1] + 1

\* C25: against the well-behaved upstream, with k upstream bars newer than the
\* snapshot's newest date D, a completed catch-up puts all k in front of the
\* stored rows when k <= 10, and a snapshot
\* without holes then holds every period from its oldest up to the newest of
\* the upstream; when k > 10 it puts the 10 newest in front and the k - 10
\* periods in between are not in the snapshot.  A period missing below the
\* newest stored date is missing after every later catch-up as well.
C25_CatchUpWindow ==
    (/\ mode = "update" /\ honest /\ ~mock
     /\ pc = "sleep" /\ event \in {"saved", "uptodate"}) =>
        LET D   == prior.rows[1].date
            k   == latest - D
            old == Dates(prior.rows)
            got == Dates(store[Cur].rows)
            in(ds, d) == \E j \in 1..Len(ds) : ds[j] = d
        IN  /\ k >= 0
            /\ k <= UpdateBufferCnt
                => /\ got = NewestDates(k) \o old
                   /\ Contiguous(old) => (Contiguous(got) /\ got[1] = latest)
            /\ k > UpdateBufferCnt
                => /\ got = NewestDates(UpdateBufferCnt) \o old
                   /\ \A d \in (D + 1)..(latest - UpdateBufferCnt) : ~in(got, d)
            /\ \A d \in 1..D : ~in(old, d) => ~in(got, d)

\* a second catch-up over a snapshot in which an earlier catch-up, of more than
\* 10 missed periods, left a hole
C25_Witness ==
    /\ runs = 2 /\ mode = "update" /\ honest /\ ~mock
    /\ pc = "sleep" /\ event = "saved"
    /\ Len(prior.rows) > UpdateBufferCnt
    /\ \E j \in 1..(Len(prior.rows) - 1) :
          /\ j = UpdateBufferCnt
          /\ prior.rows[j].date > prior.rows[j + 1].date + 1
    /\ Len(store[Cur].rows) > Len(prior.rows)

\* C26: while no response of a fetch has set the continuation header on a page
\* without rows, a fetch for cnt = n >= 1 has made at most n page requests, and
\* as long as it goes on every request so far has added at least one row, so
\* fewer than n requests have been made when another one is due.
C26_RequestsBoundedByCount ==
    (~mock /\ ~emptyPage /\ fcnt >= 1 /\ nreq >= 1) =>
        /\ nreq <= fcnt
        /\ pc = "fetch" => /\ Len(total_rows) >= nreq
                           /\ Len(total_rows) < fcnt
                           /\ nreq < fcnt

\* cnt = 2: a first page of one row with continuation, then the second request
C26_Witness ==
    /\ ~mock /\ ~emptyPage /\ ret = "rows"
    /\ fcnt = 2 /\ nreq = fcnt
    /\ Len(fetched) = 2

C28_InvalidFileIsRedownloaded ==
    [][(/\ InLoop /\ store[Cur].exists
        /\ LastDate(store[Cur].rows) \in {None, Empty}
        /\ event' # "io_error")
          => /\ pc' = "fetch" /\ mode' = "redo"
             /\ fcnt' = cnt /\ next_date' = Empty
      ]_vars

\* C28, amended: without --skip-existing such a file gets one fetch for cnt bars
\* from an empty anchor, and the whole result, when it has rows, goes to
\* write_csv, which replaces the file's content by it; when the fetch raises or
\* returns no rows the ticker is counted as failed and the file is as it was.
\* With --skip-existing the file is skipped as any existing file is.
C28_InvalidFileRedownloadedUnlessSkipped ==
    [][/\ (/\ InLoop /\ store[Cur].exists
           /\ LastDate(store[Cur].rows) \in {None, Empty}
           /\ event' # "io_error")
          => IF skip_existing
             THEN /\ pc' = "loop" /\ i' = i + 1 /\ ok' = ok + 1
                  /\ nreq' = nreq /\ store' = store
             ELSE /\ pc' = "fetch" /\ mode' = "redo"
                  /\ fcnt' = cnt /\ next_date' = Empty /\ nreq' = 0
                  /\ store' = store
       /\ (mode = "redo" /\ pc = "fetch" /\ pc' = "open")
          => /\ fetched' # <<>>
             /\ wbuf' = fetched'
       /\ (mode = "redo" /\ pc = "fetch" /\ pc' = "sleep")
          => /\ ret' = "raised" \/ (ret' = "rows" /\ fetched' = <<>>)
             /\ fail' = fail + 1 /\ ok' = ok
             /\ store' = store /\ store[Cur] = prior
       /\ (mode = "redo" /\ pc = "write" /\ event' = "saved")
          => store'[Cur] = CsvFile(wbuf)
      ]_vars

\* a file whose first row had a blank date, replaced by a download of cnt bars
C28_Witness ==
    /\ mode = "redo" /\ pc = "sleep" /\ event = "saved"
    /\ prior = Undated
    /\ Len(wbuf) = cnt
    /\ store[Cur] = CsvFile(wbuf)

\* C29: compute_signals_for_ticker raises on no file of non-negative prices
\* and volumes, so the run is never ended by one, and when it has ended every
\* file with at least lookback valid bars has its line in the full feed.
C29_RankingRunIsTotal ==
    /\ spc # "crashed"
    /\ (spc = "done" /\ sigExit = 0) =>
          \A f \in 1..Len(files) :
              Len(SelectSeq(files[f], ValidRow)) >= lookback
                  => \E k \in 1..Len(out_jsonl) : out_jsonl[k].ticker = f

\* C30: every result has its proximity_score within [0, 100] (in hundredths)
\* and its score within [0, 100] (in thousandths).
C30_ScoresWithinBounds ==
    \A k \in 1..Len(results) :
        /\ results[k].metrics.proximity_score \in 0..10000
        /\ results[k].score \in 0..100000
====
